---- MODULE Spec2Model ----
(***************************************************************************)
(* Model of examples/eval_cyw20735/rand.py: the host script that installs  *)
(* an RNG dumping routine on a CYW20735 board, triggers it with Launch_RAM,*)
(* waits for the 'RAND' HCI event, reads the result buffer, validates the  *)
(* 0x42 test bytes and accumulates the data; together with the injected    *)
(* routine (ASM_SNIPPET_RNG) running on the device and the event channel   *)
(* between the two.                                                        *)
(***************************************************************************)
EXTENDS Integers, Sequences, FiniteSets, TLC

\* ------------------------------------------------------------------------
\* Program constants and model bounds
\* ------------------------------------------------------------------------

\* rand.py:33  ASM_LOCATION_RNG = 0x217000
ASM_LOCATION_RNG == 2191360
\* rand.py:34  MEM_RNG = ASM_LOCATION_RNG + 0xf0
MEM_RNG == ASM_LOCATION_RNG + 240
\* rand.py:35  MEM_ROUNDS = 0x500 in the script; scaled down here
MEM_ROUNDS == 2
\* rand.py:187 rounds = 1000 in the script; scaled down here
rounds == 2
\* rand.py:202/205/225: records are 5 bytes wide (4 RNG bytes + test byte)
STRIDE == 5
\* rand.py:83/210: the test byte
SENTINEL == 66
\* rand.py:108: 0x444e4152, the little-endian word that spells "RAND"
RAND_WORD == 1145979218
\* number of bytes the host reads per round: MEM_ROUNDS*5 (rand.py:202)
BufLen == MEM_ROUNDS * 5
\* the bytes another writer leaves in the result buffer (0x99)
DisturbBytes == {153}
\* where it writes: the test byte of any record (a foreign write to an RNG byte is,
\* to the host, one more value the RNG may have produced)
DisturbOffsets == { k * STRIDE + (STRIDE - 1) : k \in 0 .. MEM_ROUNDS - 1 }
\* how many times another writer touches the result buffer before one read
MaxDisturb == 2
\* how many times in a row a round may come back corrupted
MaxRetry == 2
\* how many unrelated HCI records arrive during one wait
MaxInject == 1
\* how many stray matching events reach the host in one session
MaxStray == 1

\* the 32-bit values the hardware RNG register yields (0x42424242, 0x04030201)
RngWords == {1111638594, 67305985}
\* what follows "RAND" in the allocated event buffer (never written by the routine)
EventTail == << 0 >>

\* ------------------------------------------------------------------------
\* Pure helpers, computed as the code computes them
\* ------------------------------------------------------------------------

\* the four bytes a 32-bit store leaves in memory (little endian)
LEBytes(w) ==
    << w % 256, (w \div 256) % 256, (w \div 65536) % 256, (w \div 16777216) % 256 >>

\* bytes("RAND", "utf-8")  (rand.py:175)
RAND_BYTES == << 82, 65, 78, 68 >>

\* Python's seq[a:b] for 0 <= a <= b (clamped to the length); 0-based
PySlice(s, a, b) ==
    LET hi == IF b < Len(s) THEN b ELSE Len(s)
    IN  IF a >= hi THEN << >> ELSE SubSeq(s, a + 1, hi)

\* Python's seq[start::step]; 0-based start
RECURSIVE PyStride(_, _, _)
PyStride(s, start, step) ==
    IF start >= Len(s) THEN << >>
    ELSE << s[start + 1] >> \o PyStride(s, start + step, step)

\* np.arange(start, stop, step) as the set of indices it holds
Arange(start, stop, step) ==
    { k \in 0 .. (IF stop > 0 THEN stop - 1 ELSE 0) :
        k >= start /\ k < stop /\ (k - start) % step = 0 }

\* np.delete(arr, idx): arr without the elements at the 0-based indices idx
RECURSIVE NpDeleteFrom(_, _, _)
NpDeleteFrom(s, idx, k) ==
    IF k >= Len(s) THEN << >>
    ELSE (IF k \in idx THEN << >> ELSE << s[k + 1] >>) \o NpDeleteFrom(s, idx, k + 1)

NpDelete(s, idx) == NpDeleteFrom(s, idx, 0)

\* a 32-bit store of w at byte offset off of memory m (offsets are 0-based,
\* bytes outside the modelled window are not represented)
Store32(m, off, w) ==
    [ k \in 1 .. Len(m) |->
        IF k - 1 >= off /\ k - 1 < off + 4 THEN LEBytes(w)[k - off] ELSE m[k] ]

\* the byte offsets a 32-bit store at offset off writes
StoreRange(off) == off .. off + 3

\* ------------------------------------------------------------------------
\* State
\* ------------------------------------------------------------------------

VARIABLES
    pc,         \* host: position in the script
    i,          \* host: round counter (rand.py:188)
    data,       \* host: accumulated bytearray (rand.py:189)
    rnd_done,   \* host: internalblue.rnd_done (rand.py:168)
    random,     \* host: result of readMem (rand.py:202)
    pos,        \* host: validation loop counter (rand.py:206)
    failed,     \* host: validation outcome (rand.py:207)
    warned,     \* host: address the last check warned about (rand.py:211), 0 if none
    registered, \* host: rngStatusCallback is registered (rand.py:180)
    persisted,  \* host: what was written to the output file (rand.py:229)
    dpc,        \* device: position in the injected routine
    r0,         \* device: register r0 (rounds left)
    r1,         \* device: register r1 (dst), as an offset from MEM_RNG
    mem,        \* device: memory from MEM_RNG on (BufLen + 3 bytes)
    hooks,      \* device: what installation has put in place
    cmds,       \* device: Launch_RAM commands received and not yet dispatched
    rbg,        \* device: the word in the RNG data register 0x352608
    chan,       \* transport: records in flight to the host
    ops,        \* history: transport operations of the installation phase
    asmFailed,  \* history: an asm() call raised
    pending,    \* history: launchRam calls since the last completed wait
    everTrig,   \* history: launchRam has been called
    everRead,   \* history: readMem has been called
    nDisturb,   \* history: foreign writes into the result buffer since the last read
    nInject,    \* history: unrelated records sent to the host during the current wait
    lastRecord, \* history: the record last handed to the callback during the current wait
    accepted,   \* history: buffers of the rounds whose test bytes were all intact
    outcomes,   \* history: "V"/"C" of each read of the round last validated
    emitted,    \* history: 'RAND' events the routine has sent in its current execution
    stored,     \* history: offsets from MEM_RNG the routine has stored to in that execution
    nDelivered, \* history: notifications the callback took since the last wait returned
    nStray      \* history: stray matching events sent to the host so far

hostVars == << pc, i, data, rnd_done, random, pos, failed, warned, registered, persisted >>
devVars  == << dpc, r0, r1, mem, hooks, cmds, rbg >>
histVars == << ops, asmFailed, pending, everTrig, everRead, nDisturb, nInject,
               lastRecord, accepted, outcomes, emitted, stored, nDelivered, nStray >>
vars     == << hostVars, devVars, chan, histVars >>

NoBuffer == [ none |-> TRUE, bytes |-> << >> ]
Buffer(b) == [ none |-> FALSE, bytes |-> b ]
NoRecord == [ cls |-> "none", data |-> << >> ]

Init ==
    /\ pc = "connect"
    /\ i = 0
    /\ data = << >>
    /\ rnd_done = FALSE
    /\ random = NoBuffer
    /\ pos = 0
    /\ failed = FALSE
    /\ warned = 0
    /\ registered = FALSE
    /\ persisted = << >>
    /\ dpc = "idle"
    /\ r0 = 0
    /\ r1 = 0
    /\ mem = [ k \in 1 .. BufLen + 3 |-> 0 ]
    /\ hooks = [ image |-> FALSE, rngOff |-> FALSE, launch |-> FALSE ]
    /\ cmds = 0
    /\ rbg \in RngWords
    /\ chan = << >>
    /\ ops = << >>
    /\ asmFailed = FALSE
    /\ pending = 0
    /\ everTrig = FALSE
    /\ everRead = FALSE
    /\ nDisturb = 0
    /\ nInject = 0
    /\ lastRecord = NoRecord
    /\ accepted = << >>
    /\ outcomes = << >>
    /\ emitted = 0
    /\ stored = {}
    /\ nDelivered = 0
    /\ nStray = 0

Op(name, ok) == [ op |-> name, ok |-> ok ]

\* ------------------------------------------------------------------------
\* Host: connection and installation (rand.py:123-156)
\* ------------------------------------------------------------------------

\* rand.py:127-129  if not internalblue.connect(): exit(-1)
Connect ==
    /\ pc = "connect"
    /\ \E ok \in BOOLEAN :
        /\ ops' = Append(ops, Op("connect", ok))
        /\ pc' = IF ok THEN "asm_rng" ELSE "exited"
    /\ UNCHANGED << i, data, rnd_done, random, pos, failed, warned, registered, persisted,
                    devVars, chan, asmFailed, pending, everTrig, everRead, nDisturb,
                    nInject, lastRecord, accepted, outcomes,
                    emitted, stored, nDelivered, nStray >>

\* rand.py:135  code = asm(ASM_SNIPPET_RNG, ...); asm raises when it cannot assemble
AsmRng ==
    /\ pc = "asm_rng"
    /\ \E ok \in BOOLEAN :
        /\ asmFailed' = ~ok
        /\ pc' = IF ok THEN "writeMem" ELSE "crashed"
    /\ UNCHANGED << i, data, rnd_done, random, pos, failed, warned, registered, persisted,
                    devVars, chan, ops, pending, everTrig, everRead, nDisturb,
                    nInject, lastRecord, accepted, outcomes,
                    emitted, stored, nDelivered, nStray >>

\* rand.py:136-138  writeMem of the image; on failure progress_log.critical is
\* called on the None that log.info returned, so the script ends either way
WriteMem ==
    /\ pc = "writeMem"
    /\ \E ok \in BOOLEAN :
        /\ ops' = Append(ops, Op("writeMem", ok))
        /\ hooks' = [ hooks EXCEPT !.image = ok ]
        /\ pc' = IF ok THEN "asm_patch" ELSE "crashed"
    /\ UNCHANGED << i, data, rnd_done, random, pos, failed, warned, registered, persisted,
                    dpc, r0, r1, mem, cmds, rbg, chan, asmFailed, pending, everTrig, everRead,
                    nDisturb, nInject, lastRecord, accepted, outcomes,
                    emitted, stored, nDelivered, nStray >>

\* an assembly failure that is swallowed
AsmPatchSwallowed ==
    /\ pc = "asm_patch"
    /\ \E ok \in BOOLEAN :
        /\ asmFailed' = ~ok
        /\ pc' = "patchRng"
    /\ UNCHANGED << i, data, rnd_done, random, pos, failed, warned, registered, persisted,
                    devVars, chan, ops, pending, everTrig, everRead, nDisturb,
                    nInject, lastRecord, accepted, outcomes,
                    emitted, stored, nDelivered, nStray >>

\* rand.py:141  patch = asm("bx lr; bx lr", vma=FUN_RNG)
AsmPatch ==
    /\ pc = "asm_patch"
    /\ \E ok \in BOOLEAN :
        /\ asmFailed' = ~ok
        /\ pc' = IF ok THEN "patchRng" ELSE "crashed"
    /\ UNCHANGED << i, data, rnd_done, random, pos, failed, warned, registered, persisted,
                    devVars, chan, ops, pending, everTrig, everRead, nDisturb,
                    nInject, lastRecord, accepted, outcomes,
                    emitted, stored, nDelivered, nStray >>

\* rand.py:142-144  if not internalblue.patchRom(FUN_RNG, patch): exit(-1)
PatchRng ==
    /\ pc = "patchRng"
    /\ \E ok \in BOOLEAN :
        /\ ops' = Append(ops, Op("patchRom_rng", ok))
        /\ hooks' = [ hooks EXCEPT !.rngOff = ok ]
        /\ pc' = IF ok THEN "patchLaunch" ELSE "exited"
    /\ UNCHANGED << i, data, rnd_done, random, pos, failed, warned, registered, persisted,
                    dpc, r0, r1, mem, cmds, rbg, chan, asmFailed, pending, everTrig, everRead,
                    nDisturb, nInject, lastRecord, accepted, outcomes,
                    emitted, stored, nDelivered, nStray >>

\* a handler patch whose result is not looked at
PatchLaunchUnchecked ==
    /\ pc = "patchLaunch"
    /\ \E ok \in BOOLEAN :
        /\ ops' = Append(ops, Op("patchRom_launch", ok))
        /\ hooks' = [ hooks EXCEPT !.launch = ok ]
        /\ pc' = "register"
    /\ UNCHANGED << i, data, rnd_done, random, pos, failed, warned, registered, persisted,
                    dpc, r0, r1, mem, cmds, rbg, chan, asmFailed, pending, everTrig, everRead,
                    nDisturb, nInject, lastRecord, accepted, outcomes,
                    emitted, stored, nDelivered, nStray >>

\* rand.py:150-152  if not internalblue.patchRom(0x1425BC, ...): exit(-1)
PatchLaunch ==
    /\ pc = "patchLaunch"
    /\ \E ok \in BOOLEAN :
        /\ ops' = Append(ops, Op("patchRom_launch", ok))
        /\ hooks' = [ hooks EXCEPT !.launch = ok ]
        /\ pc' = IF ok THEN "register" ELSE "exited"
    /\ UNCHANGED << i, data, rnd_done, random, pos, failed, warned, registered, persisted,
                    dpc, r0, r1, mem, cmds, rbg, chan, asmFailed, pending, everTrig, everRead,
                    nDisturb, nInject, lastRecord, accepted, outcomes,
                    emitted, stored, nDelivered, nStray >>

\* a script whose flag starts out set
RegisterCallbackFlagSet ==
    /\ pc = "register"
    /\ rnd_done' = TRUE
    /\ registered' = TRUE
    /\ pc' = "loop"
    /\ UNCHANGED << i, data, random, pos, failed, warned, persisted,
                    devVars, chan, histVars >>

\* rand.py:168-180  rnd_done = False; registerHciCallback(rngStatusCallback)
RegisterCallback ==
    /\ pc = "register"
    /\ rnd_done' = FALSE
    /\ registered' = TRUE
    /\ pc' = "loop"
    /\ UNCHANGED << i, data, random, pos, failed, warned, persisted,
                    devVars, chan, histVars >>

\* ------------------------------------------------------------------------
\* Host: the harvest loop (rand.py:186-230)
\* ------------------------------------------------------------------------

\* rand.py:190  while rounds > i:   ... rand.py:222 once the loop is left
LoopHead ==
    /\ pc = "loop"
    /\ pc' = IF rounds > i THEN "launch" ELSE "done"
    /\ UNCHANGED << i, data, rnd_done, random, pos, failed, warned, registered, persisted,
                    devVars, chan, histVars >>

\* rand.py:194  internalblue.launchRam(ASM_LOCATION_RNG); the result is not looked
\* at, so the script goes on whether or not the command reached the device
LaunchRam ==
    /\ pc = "launch"
    /\ \E sent \in BOOLEAN :
        cmds' = IF sent THEN cmds + 1 ELSE cmds
    /\ pending' = pending + 1
    /\ everTrig' = TRUE
    /\ pc' = "wait"
    /\ UNCHANGED << i, data, rnd_done, random, pos, failed, warned, registered, persisted,
                    dpc, r0, r1, mem, hooks, rbg, chan, ops, asmFailed, everRead,
                    nDisturb, nInject, lastRecord, accepted, outcomes,
                    emitted, stored, nDelivered, nStray >>

\* a wait that gives up after a while
WaitTimesOut ==
    /\ pc = "wait"
    /\ pending' = pending - 1
    /\ pc' = "reset"
    /\ nInject' = 0
    /\ lastRecord' = NoRecord
    /\ nDelivered' = 0
    /\ UNCHANGED << i, data, rnd_done, random, pos, failed, warned, registered, persisted,
                    devVars, chan, ops, asmFailed, everTrig, everRead,
                    nDisturb, accepted, outcomes, emitted, stored, nStray >>

\* rand.py:197-198  while not internalblue.rnd_done: continue
Wait ==
    /\ pc = "wait"
    /\ rnd_done
    /\ pending' = pending - 1
    /\ pc' = "reset"
    /\ nInject' = 0
    /\ lastRecord' = NoRecord
    /\ nDelivered' = 0
    /\ UNCHANGED << i, data, rnd_done, random, pos, failed, warned, registered, persisted,
                    devVars, chan, ops, asmFailed, everTrig, everRead,
                    nDisturb, accepted, outcomes, emitted, stored, nStray >>

\* a loop that leaves the flag set
ResetFlagForgotten ==
    /\ pc = "reset"
    /\ pc' = "read"
    /\ UNCHANGED << i, data, rnd_done, random, pos, failed, warned, registered, persisted,
                    devVars, chan, histVars >>

\* rand.py:199  internalblue.rnd_done = False
ResetFlag ==
    /\ pc = "reset"
    /\ rnd_done' = FALSE
    /\ pc' = "read"
    /\ UNCHANGED << i, data, random, pos, failed, warned, registered, persisted,
                    devVars, chan, histVars >>

\* rand.py:202  random = internalblue.readMem(MEM_RNG, MEM_ROUNDS*5): the bytes at
\* MEM_RNG, or no buffer when the transport fails
ReadMem ==
    /\ pc = "read"
    /\ \E ok \in BOOLEAN :
        random' = IF ok THEN Buffer(PySlice(mem, 0, MEM_ROUNDS * 5)) ELSE NoBuffer
    /\ everRead' = TRUE
    /\ pc' = "check"
    /\ nDisturb' = 0
    /\ UNCHANGED << i, data, rnd_done, pos, failed, warned, registered, persisted,
                    devVars, chan, ops, asmFailed, pending, everTrig,
                    nInject, lastRecord, accepted, outcomes,
                    emitted, stored, nDelivered, nStray >>

\* rand.py:208-213  for c in check: pos = pos + 1; if c != 0x42: failed = True; break
RECURSIVE ScanCheck(_, _)
ScanCheck(check, p) ==
    IF check = << >> THEN [ pos |-> p, failed |-> FALSE ]
    ELSE IF Head(check) # SENTINEL THEN [ pos |-> p + 1, failed |-> TRUE ]
    ELSE ScanCheck(Tail(check), p + 1)

\* a check that looks one byte too early: random[3::5]
CheckBufferOffByOne(buf) == ScanCheck(PyStride(buf, 3, 5), 0)

\* rand.py:205-207  check = random[4::5]; pos = 0; failed = False; then the scan
CheckBuffer(buf) == ScanCheck(PyStride(buf, 4, 5), 0)

\* rand.py:211  the address the warning names: MEM_RNG+(pos*5)
WarnAddress(p) == MEM_RNG + (p * 5)

\* every test byte of the buffer is intact (what the 0x42 bytes are for, rand.py:17-19)
Intact(buf) ==
    \A k \in 0 .. (Len(buf) \div STRIDE) - 1 : buf[k * STRIDE + STRIDE] = SENTINEL

\* the outcomes so far of the round now being harvested
RoundOutcomes ==
    IF outcomes # << >> /\ outcomes[Len(outcomes)] = "V" THEN << >> ELSE outcomes

\* rand.py:205-213  the immediate check; subscripting a missing buffer raises
Validate ==
    /\ pc = "check"
    /\ IF random.none
       THEN /\ pc' = "crashed"
            /\ UNCHANGED << pos, failed, warned, accepted, outcomes >>
       ELSE LET res == CheckBuffer(random.bytes)
            IN  /\ pos' = res.pos
                /\ failed' = res.failed
                /\ warned' = IF res.failed THEN WarnAddress(res.pos) ELSE 0
                /\ pc' = "branch"
                /\ accepted' = IF Intact(random.bytes)
                               THEN Append(accepted, random.bytes) ELSE accepted
                /\ outcomes' = Append(RoundOutcomes,
                                       IF Intact(random.bytes) THEN "V" ELSE "C")
    /\ UNCHANGED << i, data, rnd_done, random, registered, persisted,
                    devVars, chan, ops, asmFailed, pending, everTrig, everRead,
                    nDisturb, nInject, lastRecord,
                    emitted, stored, nDelivered, nStray >>

\* a round that ignores the outcome of the check
BranchIgnoringCheck ==
    /\ pc = "branch"
    /\ pc' = "save"
    /\ UNCHANGED << i, data, rnd_done, random, pos, failed, warned, registered, persisted,
                    devVars, chan, histVars >>

\* a round that ends the session when the check fails
BranchGivingUp ==
    /\ pc = "branch"
    /\ pc' = IF failed THEN "exited" ELSE "save"
    /\ UNCHANGED << i, data, rnd_done, random, pos, failed, warned, registered, persisted,
                    devVars, chan, histVars >>

\* rand.py:215-216  if failed: continue
Branch ==
    /\ pc = "branch"
    /\ pc' = IF failed THEN "loop" ELSE "save"
    /\ UNCHANGED << i, data, rnd_done, random, pos, failed, warned, registered, persisted,
                    devVars, chan, histVars >>

\* a round that puts its buffer in front of what was gathered before
SavePrepending ==
    /\ pc = "save"
    /\ data' = random.bytes \o data
    /\ i' = i + 1
    /\ pc' = "loop"
    /\ UNCHANGED << rnd_done, random, pos, failed, warned, registered, persisted,
                    devVars, chan, histVars >>

\* a loop that registers the callback again after every round it keeps
SaveReregistering ==
    /\ pc = "save"
    /\ data' = data \o random.bytes
    /\ i' = i + 1
    /\ pc' = "register"
    /\ UNCHANGED << rnd_done, random, pos, failed, warned, registered, persisted,
                    devVars, chan, histVars >>

\* rand.py:219-220  data.extend(random); i = i + 1
Save ==
    /\ pc = "save"
    /\ data' = data \o random.bytes
    /\ i' = i + 1
    /\ pc' = "loop"
    /\ UNCHANGED << rnd_done, random, pos, failed, warned, registered, persisted,
                    devVars, chan, histVars >>

\* a strip that starts one byte too late: np.arange(5, len, 5)
StripFromFive(d) == NpDelete(d, Arange(5, Len(d), 5))

\* rand.py:225  data = np.delete(data, np.arange(4, data.__len__(), 5))
StripSentinels(d) == NpDelete(d, Arange(4, Len(d), 5))

\* rand.py:222-230  "Finished acquiring random data!"; data becomes the stripped
\* array (225), which is then written to the file (228-230)
Persist ==
    /\ pc = "done"
    /\ data' = StripSentinels(data)
    /\ persisted' = data'
    /\ pc' = "written"
    /\ UNCHANGED << i, rnd_done, random, pos, failed, warned, registered,
                    devVars, chan, histVars >>

HostRunning == pc \notin { "exited", "crashed", "written" }

\* ------------------------------------------------------------------------
\* Device: the injected routine (rand.py:38-120)
\* ------------------------------------------------------------------------

\* the command complete event of rand.py:44-46 (one packet, opcode 0xFC4E, status 0)
CmdComplete == [ cls |-> "HCI_Event", data |-> << 1, 78, 252, 0 >> ]

\* the vendor specific event of rand.py:99-114: "RAND", then whatever the buffer held
RandEvent == [ cls |-> "HCI_Event", data |-> LEBytes(RAND_WORD) \o EventTail ]

\* the patched Launch_RAM handler entry (rand.py:150) dispatches into the image
DevStart ==
    /\ dpc = "idle"
    /\ cmds > 0
    /\ hooks.image /\ hooks.launch
    /\ cmds' = cmds - 1
    /\ dpc' = "entry"
    /\ rbg' \in RngWords       \* whatever the RNG holds by now
    /\ emitted' = 0
    /\ stored' = {}
    /\ UNCHANGED << hostVars, r0, r1, mem, hooks, chan, ops, asmFailed, pending, everTrig,
                    everRead, nDisturb, nInject, lastRecord, accepted, outcomes, nDelivered, nStray >>

\* rand.py:41-51  push; send command complete; r0 = rounds, r1 = dst; bl dump_rng
DevEntry ==
    /\ dpc = "entry"
    /\ chan' = Append(chan, CmdComplete)
    /\ r0' = MEM_ROUNDS
    /\ r1' = 0
    /\ dpc' = "dump"
    /\ UNCHANGED << hostVars, mem, hooks, cmds, rbg, histVars >>

\* a routine that leaves dump_rng after the first record (no bne dump_rng)
DevDumpNoLoop ==
    /\ dpc = "dump"
    /\ mem' = Store32(Store32(mem, r1, rbg), r1 + 4, SENTINEL)
    /\ rbg' \in RngWords \ { rbg }
    /\ r1' = r1 + 5
    /\ r0' = r0 - 1
    /\ dpc' = "notify"
    /\ stored' = stored \cup StoreRange(r1) \cup StoreRange(r1 + 4)
    /\ UNCHANGED << hostVars, hooks, cmds, chan, ops, asmFailed, pending, everTrig, everRead,
                    nDisturb, nInject, lastRecord, accepted, outcomes, emitted, nDelivered, nStray >>

\* rand.py:61-90  one pass of dump_rng: wait until ready, request entropy, store the
\* RNG word at r1, r1 += 4, store 0x42 as a word at r1, r1 += 1, r0 -= 1, loop.
\* The request makes the RNG produce a fresh word, taken here to differ from the last.
DevDump ==
    /\ dpc = "dump"
    /\ mem' = Store32(Store32(mem, r1, rbg), r1 + 4, SENTINEL)
    /\ rbg' \in RngWords \ { rbg }
    /\ r1' = r1 + 5
    /\ r0' = r0 - 1            \* subs r0, 1: r0 >= 1 here, so it does not wrap
    /\ dpc' = IF r0' # 0 THEN "dump" ELSE "notify"
    /\ stored' = stored \cup StoreRange(r1) \cup StoreRange(r1 + 4)
    /\ UNCHANGED << hostVars, hooks, cmds, chan, ops, asmFailed, pending, everTrig, everRead,
                    nDisturb, nInject, lastRecord, accepted, outcomes, emitted, nDelivered, nStray >>

\* rand.py:95-117  notify_hci: allocate the event, write "RAND", enqueue it
DevNotify ==
    /\ dpc = "notify"
    /\ chan' = Append(chan, RandEvent)
    /\ dpc' = "idle"
    /\ emitted' = emitted + 1
    /\ UNCHANGED << hostVars, r0, r1, mem, hooks, cmds, rbg, ops, asmFailed, pending,
                    everTrig, everRead, nDisturb, nInject, lastRecord, accepted, outcomes,
                    stored, nDelivered, nStray >>

\* ------------------------------------------------------------------------
\* Event delivery and the rest of the device
\* ------------------------------------------------------------------------

\* a test that leaves out the class check
IsRandEventAnyClass(record) == PySlice(record.data, 0, 4) = RAND_BYTES

\* rand.py:170-175  the test rngStatusCallback makes on a record
IsRandEvent(record) ==
    /\ record.cls = "HCI_Event"
    /\ PySlice(record.data, 0, 4) = RAND_BYTES

\* rand.py:169-177  rngStatusCallback(record): the value it leaves in rnd_done
rngStatusCallback(record, flag) ==
    IF IsRandEvent(record) THEN TRUE ELSE flag

\* the receive thread hands the next record to the registered callback
Deliver ==
    /\ chan # << >>
    /\ HostRunning
    /\ chan' = Tail(chan)
    /\ IF registered
       THEN /\ rnd_done' = rngStatusCallback(Head(chan), rnd_done)
            /\ lastRecord' = Head(chan)
            /\ nDelivered' = IF IsRandEvent(Head(chan)) THEN nDelivered + 1 ELSE nDelivered
       ELSE UNCHANGED << rnd_done, lastRecord, nDelivered >>
    /\ UNCHANGED << pc, i, data, random, pos, failed, warned, registered, persisted,
                    devVars, ops, asmFailed, pending, everTrig, everRead,
                    nDisturb, nInject, accepted, outcomes, emitted, stored, nStray >>

\* the transport loses the next record
Drop ==
    /\ chan # << >>
    /\ HostRunning
    /\ chan' = Tail(chan)
    /\ UNCHANGED << hostVars, devVars, histVars >>

\* records that reach the callback and are not the routine's notification
OtherRecords ==
    { [ cls |-> "HCI_Acl",   data |-> << 82, 65, 78, 68, 0 >> ],
      [ cls |-> "HCI_Event", data |-> << 82, 65, 78 >> ],
      [ cls |-> "HCI_Event", data |-> << 82, 65, 78, 69 >> ],
      [ cls |-> "HCI_Event", data |-> << 0, 82, 65, 78, 68 >> ] }

\* other traffic of the controller arrives on the same channel; the callback only
\* ever sets a flag that the wait reads, so records arriving while the script waits
\* on an empty channel are the ones that can tell
Inject ==
    /\ registered
    /\ pc = "wait" /\ ~rnd_done
    /\ chan = << >>
    /\ nInject < MaxInject
    /\ \E rec \in OtherRecords :
        chan' = Append(chan, rec)
    /\ nInject' = nInject + 1
    /\ UNCHANGED << hostVars, devVars, ops, asmFailed, pending, everTrig, everRead,
                    nDisturb, lastRecord, accepted, outcomes,
                    emitted, stored, nDelivered, nStray >>

\* another process writes into the result region (rand.py:17-19); a write that the
\* routine overwrites again is not seen by the host, so only those before the read count
Disturb ==
    /\ pc = "read"
    /\ nDisturb < MaxDisturb
    /\ Len(RoundOutcomes) < MaxRetry
    /\ \E p \in DisturbOffsets : \E b \in DisturbBytes :
        mem' = [ mem EXCEPT ![p + 1] = b ]
    /\ nDisturb' = nDisturb + 1
    /\ UNCHANGED << hostVars, dpc, r0, r1, hooks, cmds, rbg, chan, ops, asmFailed, pending,
                    everTrig, everRead, nInject, lastRecord, accepted, outcomes,
                    emitted, stored, nDelivered, nStray >>

\* a matching event that no finished execution stands behind reaches the host: one
\* the transport hands over a second time, or one left over from an earlier run of
\* the routine.  The callback cannot tell it from the one the wait is for.
Stray ==
    /\ registered
    /\ HostRunning
    /\ nStray < MaxStray
    /\ chan' = Append(chan, RandEvent)
    /\ nStray' = nStray + 1
    /\ UNCHANGED << hostVars, devVars, ops, asmFailed, pending, everTrig, everRead, nDisturb,
                    nInject, lastRecord, accepted, outcomes, emitted, stored, nDelivered >>

Next ==
    \/ Connect
    \/ AsmRng
    \/ WriteMem
    \/ AsmPatch
    \/ PatchRng
    \/ PatchLaunch
    \/ RegisterCallback
    \/ LoopHead
    \/ LaunchRam
    \/ Wait
    \/ ResetFlag
    \/ ReadMem
    \/ Validate
    \/ Branch
    \/ Save
    \/ Persist
    \/ DevStart
    \/ DevEntry
    \/ DevDump
    \/ DevNotify
    \/ Deliver
    \/ Drop
    \/ Inject
    \/ Disturb

Spec == Init /\ [][Next]_vars

\* the steps of the script, of the device and of the receive thread
HostNext ==
    \/ Connect \/ AsmRng \/ WriteMem \/ AsmPatch \/ PatchRng \/ PatchLaunch
    \/ RegisterCallback \/ LoopHead \/ LaunchRam \/ Wait \/ ResetFlag \/ ReadMem
    \/ Validate \/ Branch \/ Save \/ Persist

DevNext == DevStart \/ DevEntry \/ DevDump \/ DevNotify

\* the script, the firmware and the receive thread each keep running
FairSpec ==
    /\ Init /\ [][Next]_vars
    /\ WF_vars(HostNext)
    /\ WF_vars(DevNext)
    /\ WF_vars(Deliver)

\* the same system on a channel that also carries stray matching events
NoisyNext == HostNext \/ DevNext \/ Deliver \/ Stray

NoisySpec == Init /\ [][NoisyNext]_vars

\* ------------------------------------------------------------------------
\* C1
\* ------------------------------------------------------------------------

RECURSIVE Concat(_)
Concat(ss) == IF ss = << >> THEN << >> ELSE Head(ss) \o Concat(Tail(ss))

\* C1: a round whose buffer has a damaged test byte changes neither i nor data.
\* Whenever the loop is back at its head, i counts exactly the rounds whose test
\* bytes were all intact and data is exactly their buffers, in order: nothing of
\* a corrupted round's buffer is in it.
C1_CorruptedRoundsLeaveNoTrace ==
    pc = "loop" => /\ i = Len(accepted)
                   /\ data = Concat(accepted)

\* C1 witness: corrupted, corrupted, valid: i is 1 and data is one buffer long
C1_Witness ==
    /\ pc = "loop"
    /\ outcomes = << "C", "C", "V" >>
    /\ i = 1
    /\ Len(data) = BufLen

\* ------------------------------------------------------------------------
\* C2
\* ------------------------------------------------------------------------

\* the records of a buffer whose byte at offset stride-1 is not the test byte
BadRecords(buf) ==
    { k \in 0 .. (Len(buf) \div STRIDE) - 1 : buf[k * STRIDE + (STRIDE - 1) + 1] # SENTINEL }

\* C2: once the check of a buffer is through, failed is TRUE exactly when some
\* record's byte at offset stride-1 (positions 4, 9, 14, ...) is not 0x42.
C2_FailedIffSomeSentinelDiffers ==
    pc = "branch" => (failed <=> BadRecords(random.bytes) # {})

\* C2 witness: a checked buffer whose first test byte is intact and whose last is not
C2_Witness ==
    /\ pc = "branch"
    /\ failed
    /\ random.bytes[STRIDE] = SENTINEL
    /\ random.bytes[BufLen] # SENTINEL

\* ------------------------------------------------------------------------
\* C3
\* ------------------------------------------------------------------------

\* the first record of a buffer whose test byte is damaged
FirstBad(buf) == CHOOSE k \in BadRecords(buf) : \A j \in BadRecords(buf) : k <= j

\* C3: when the check finds a mismatch it has stopped at the first mismatching
\* record k, and the position it reports is MEM_RNG + k*stride + (stride-1), the
\* address of that record's test byte.
C3_ReportsSentinelOffset ==
    (pc = "branch" /\ failed) =>
        /\ pos = FirstBad(random.bytes) + 1
        /\ warned - MEM_RNG = FirstBad(random.bytes) * STRIDE + (STRIDE - 1)

\* ------------------------------------------------------------------------
\* C4
\* ------------------------------------------------------------------------

\* the payload of one buffer: the first stride-1 bytes of each of its records
RECURSIVE PayloadFrom(_, _)
PayloadFrom(buf, k) ==
    IF k * STRIDE >= Len(buf) THEN << >>
    ELSE SubSeq(buf, k * STRIDE + 1, k * STRIDE + (STRIDE - 1)) \o PayloadFrom(buf, k + 1)

RECURSIVE Payloads(_)
Payloads(bufs) ==
    IF bufs = << >> THEN << >> ELSE PayloadFrom(Head(bufs), 0) \o Payloads(Tail(bufs))

\* C4: what is written after N valid rounds is N * MEM_ROUNDS * (stride-1) bytes
\* long and is the payload bytes of those rounds in order: every byte of a test
\* position is gone and no payload byte is.
C4_PersistedIsPayload ==
    pc = "written" =>
        /\ Len(accepted) = rounds
        /\ Len(persisted) = Len(accepted) * MEM_ROUNDS * (STRIDE - 1)
        /\ persisted = Payloads(accepted)

\* C4 witness: a finished session whose payload holds a byte equal to the test byte
C4_Witness ==
    /\ pc = "written"
    /\ Len(persisted) = rounds * MEM_ROUNDS * (STRIDE - 1)
    /\ persisted[1] = SENTINEL
    /\ persisted[STRIDE] # SENTINEL

\* ------------------------------------------------------------------------
\* C5
\* ------------------------------------------------------------------------

\* a record the host takes for the completion notification
IsNotification(rec) ==
    /\ rec.cls = "HCI_Event"
    /\ Len(rec.data) >= 4
    /\ \A k \in 1 .. 4 : rec.data[k] = << 82, 65, 78, 68 >>[k]

\* a trigger is still under way: not yet dispatched, running, or its notification
\* is in flight or received and not yet consumed
Outstanding ==
    \/ cmds > 0
    \/ dpc # "idle"
    \/ \E k \in 1 .. Len(chan) : IsNotification(chan[k])
    \/ rnd_done

\* C5: at most one trigger is outstanding.  Exactly one launchRam is issued per
\* completed wait, and launchRam is never called while an earlier trigger is
\* still under way.
C5_OneOutstandingTrigger ==
    /\ pending = (IF pc = "wait" THEN 1 ELSE 0)
    /\ pc = "launch" => ~Outstanding

\* C5 witness: the trigger of a repeated round has been issued
C5_Witness ==
    /\ pc = "wait"
    /\ pending = 1
    /\ outcomes = << "C" >>
    /\ dpc = "dump"

\* ------------------------------------------------------------------------
\* C6
\* ------------------------------------------------------------------------

\* C6: a failed read is contained in the loop: from the state in which readMem
\* gave no buffer the script goes back to the head of the loop with i and data
\* as they were, and does not end.
C6_ReadFailureIsRetried ==
    [][ (pc = "check" /\ random.none) =>
            /\ pc' \in { "check", "loop" }
            /\ i' = i
            /\ data' = data ]_vars

\* ------------------------------------------------------------------------
\* C7
\* ------------------------------------------------------------------------

Installed ==
    << Op("connect", TRUE), Op("writeMem", TRUE),
       Op("patchRom_rng", TRUE), Op("patchRom_launch", TRUE) >>

SomeOpFailed == \E k \in 1 .. Len(ops) : ~ops[k].ok

\* C7: a trigger or a read is issued only after the image write, the patch of the
\* RNG function and the patch of the Launch_RAM handler entry have succeeded, in
\* that order; once one of them has failed the script has ended and neither a
\* trigger nor a read was ever issued.
C7_InstallAllOrNothing ==
    /\ (pc \in { "launch", "read" } \/ everTrig \/ everRead) =>
            /\ ops = Installed
            /\ hooks.image /\ hooks.rngOff /\ hooks.launch
    /\ SomeOpFailed =>
            /\ pc \in { "exited", "crashed" }
            /\ ~everTrig /\ ~everRead /\ cmds = 0 /\ dpc = "idle"

\* C7 witness: the handler patch failed after the two steps before it succeeded
C7_Witness ==
    /\ pc = "exited"
    /\ Len(ops) = 4
    /\ ops[2].ok /\ ops[3].ok /\ ~ops[4].ok
    /\ ~everTrig

\* ------------------------------------------------------------------------
\* C8
\* ------------------------------------------------------------------------

\* C8 as stated: when an asm() call has failed, no transport operation was
\* performed before it and none is performed after it.
C8_NoTransportAroundAsmFailure ==
    asmFailed => (ops = << >> /\ ~everTrig /\ ~everRead)

\* C8 as it holds: when an asm() call has failed the script has ended, and all it
\* ever did on the transport is the connect and, for the second asm(), the write of
\* the image: no patchRom, no launchRam and no readMem, before or after.
C8_AsmFailureEndsSession ==
    asmFailed =>
        /\ pc = "crashed"
        /\ ops \in { << Op("connect", TRUE) >>,
                     << Op("connect", TRUE), Op("writeMem", TRUE) >> }
        /\ ~everTrig /\ ~everRead
        /\ ~hooks.rngOff /\ ~hooks.launch

\* C8 witness: the assembly of the RNG patch failed, after the image was written
C8_Witness ==
    /\ asmFailed
    /\ Len(ops) = 2
    /\ hooks.image

\* ------------------------------------------------------------------------
\* C9
\* ------------------------------------------------------------------------

\* C9: the flag is set only by the callback taking a notification (an HCI event
\* whose first four data bytes are "RAND"); a step that takes any other record off
\* the channel leaves the flag and every other variable of the script as they
\* were, so a waiting round stays where it is.
C9_OnlyRandSetsFlag ==
    [][ /\ (rnd_done' /\ ~rnd_done) =>
              (chan # << >> /\ chan' = Tail(chan) /\ registered /\ IsNotification(Head(chan)))
        /\ (chan # << >> /\ chan' = Tail(chan) /\ ~IsNotification(Head(chan))) =>
              UNCHANGED hostVars ]_vars

\* C9 witness: the callback was handed an HCI event "RANE" and the round still waits
C9_Witness ==
    /\ pc = "wait"
    /\ ~rnd_done
    /\ lastRecord = [ cls |-> "HCI_Event", data |-> << 82, 65, 78, 69 >> ]

\* ------------------------------------------------------------------------
\* C10
\* ------------------------------------------------------------------------

\* C10: the loop is left for "Finished acquiring random data!" only with i equal
\* to rounds, and if every wait is released by a notification (rounds do not stay
\* corrupted: MaxRetry) the loop, once entered, gets there.
C10_LoopReachesDone ==
    /\ [](pc \in { "done", "written" } => i = rounds)
    /\ ((pc = "wait") ~> rnd_done) => ((pc = "loop") ~> (pc \in { "done", "written" }))

\* ------------------------------------------------------------------------
\* C11
\* ------------------------------------------------------------------------

\* the routine has been triggered and has not yet finished
Executing == cmds > 0 \/ dpc # "idle"

\* C11: readMem is never performed while the execution of the most recently issued
\* trigger is still under way on the device, whatever matching events reach the
\* host and whenever they do (before the first trigger, or twice for one execution).
C11_ReadOnlyAfterExecution ==
    [][ (pc = "read" /\ pc' = "check") => ~Executing ]_vars

\* ------------------------------------------------------------------------
\* C12
\* ------------------------------------------------------------------------

\* record k of the result buffer holds an RNG word followed by the test byte
RecordWritten(k) ==
    /\ \E w \in RngWords : SubSeq(mem, k * STRIDE + 1, k * STRIDE + 4) = LEBytes(w)
    /\ mem[k * STRIDE + STRIDE] = SENTINEL

\* the notifications now in flight to the host
InFlight == { k \in 1 .. Len(chan) : IsNotification(chan[k]) }

\* C12: within one execution the routine sends the 'RAND' event only after all
\* MEM_ROUNDS records (4 RNG bytes and the test byte, 5 bytes apart from MEM_RNG on)
\* are written, and it sends exactly one: none while it runs, one once it is through.
C12_OneNotificationAfterAllRecords ==
    /\ emitted = (IF dpc = "idle" /\ stored # {} THEN 1 ELSE 0)
    /\ Cardinality(InFlight) <= emitted
    /\ (dpc = "notify" \/ emitted = 1) =>
            /\ r0 = 0
            /\ r1 = MEM_ROUNDS * STRIDE
            /\ 0 .. MEM_ROUNDS * STRIDE - 1 \subseteq stored
    /\ dpc = "notify" => \A k \in 0 .. MEM_ROUNDS - 1 : RecordWritten(k)

\* C12 witness: the second execution is through and its one notification is on its
\* way, all records in place
C12_Witness ==
    /\ i = 1
    /\ pc = "wait"
    /\ dpc = "idle"
    /\ emitted = 1
    /\ Cardinality(InFlight) = 1
    /\ \A k \in 0 .. MEM_ROUNDS - 1 : RecordWritten(k)

\* ------------------------------------------------------------------------
\* C13
\* ------------------------------------------------------------------------

\* the round being harvested has come back corrupted k >= 1 times in a row
Retrying == RoundOutcomes # << >>

\* C13: corrupted rounds are retried without limit.  After any number of corrupted
\* reads in a row of a round, the script's next steps lead back to the head of the
\* loop and from there to launchRam with the round counter and the data as they
\* were; the script never ends because of corruption: once the loop has been
\* entered it ends early only when readMem gave no buffer.
C13_CorruptedRoundIsRetriggered ==
    /\ [][ (Retrying /\ pc \in { "branch", "loop" } /\ pc' # pc) =>
              /\ pc' = (IF pc = "branch" THEN "loop" ELSE "launch")
              /\ i' = i
              /\ data' = data ]_vars
    /\ []( (registered /\ pc \in { "exited", "crashed" }) => random.none )

\* C13 witness: the second round has come back corrupted MaxRetry times in a row
\* and is about to be triggered again
C13_Witness ==
    /\ pc = "launch"
    /\ i = 1
    /\ Len(RoundOutcomes) = MaxRetry
    /\ \A k \in 1 .. MaxRetry : outcomes[k] = "C"

\* ------------------------------------------------------------------------
\* C14
\* ------------------------------------------------------------------------

\* the script waits and nothing is left that could notify it: no command pending,
\* the routine idle, no notification in flight
Lost ==
    /\ pc = "wait" /\ ~rnd_done
    /\ cmds = 0 /\ dpc = "idle"
    /\ InFlight = {}

\* C14: the wait has no timeout.  While the script waits with the flag not set it
\* stays in the wait and does nothing on the transport (no further launchRam, no
\* readMem) nor to i and data; the flag is set there only by the callback taking a
\* notification; and once the notification is lost the script waits for ever,
\* which keeps it from ever finishing.
C14_WaitHasNoTimeout ==
    /\ [][ (pc = "wait" /\ ~rnd_done) =>
              /\ pc' = "wait"
              /\ i' = i /\ data' = data
              /\ pending' = pending /\ everRead' = everRead /\ cmds' <= cmds
              /\ rnd_done' => nDelivered' = nDelivered + 1 ]_vars
    /\ [][ Lost => Lost' ]_vars

\* C14 witness: the first execution is through, its notification was lost on the
\* way and the script still waits
C14_Witness ==
    /\ Lost
    /\ i = 0 /\ outcomes = << >>
    /\ emitted = 1
    /\ nDelivered = 0

\* ------------------------------------------------------------------------
\* C15
\* ------------------------------------------------------------------------

\* C15: the callback is registered exactly once per session.  The step that
\* registers it finds no callback registered, all of the installation done and no
\* trigger issued yet; it is reached only from the end of the installation, never
\* from a round; and the callback stays registered from then on, so every trigger
\* is issued with it in place.
C15_RegisteredOnce ==
    /\ [][ (pc = "register" /\ pc' # pc) =>
              /\ ~registered /\ registered'
              /\ ops = Installed
              /\ hooks.image /\ hooks.rngOff /\ hooks.launch
              /\ ~everTrig ]_vars
    /\ [][ (pc' = "register" /\ pc # "register") => pc = "patchLaunch" ]_vars
    /\ [][ registered => registered' ]_vars
    /\ []( (everTrig \/ pc \in { "loop", "launch", "wait", "reset", "read" }) => registered )

\* C15 witness: the last round is through and the one callback is still registered
C15_Witness ==
    /\ pc = "done"
    /\ i = rounds
    /\ registered
    /\ outcomes = << "C", "V" >>

\* ------------------------------------------------------------------------
\* C16
\* ------------------------------------------------------------------------

IsPrefix(s, u) == Len(s) <= Len(u) /\ SubSeq(u, 1, Len(s)) = s

\* the buffers of the valid rounds that have been added to data
Kept == SubSeq(accepted, 1, i)

\* C16 as stated: at every step what was accumulated before is a prefix of what is
\* accumulated now, and the accumulated data is the payload bytes of the valid
\* rounds in the order they were harvested, with no byte of a test position in it.
C16_DatasetIsStrippedPayload ==
    /\ [][ IsPrefix(data, data') ]_vars
    /\ []( data = Payloads(Kept) )

\* C16 as it holds: throughout the loop data only grows at its end and is the
\* buffers of the valid rounds in the order they were harvested, test bytes
\* included; the test bytes are taken out once, after the loop, and from then on
\* data, which is what gets written, is the payload bytes of those rounds in order
\* with no byte of a test position in it.
C16_RawUntilStripped ==
    /\ [][ pc' # "written" => IsPrefix(data, data') ]_vars
    /\ []( pc # "written" => data = Concat(Kept) )
    /\ []( pc = "written" => (data = Payloads(Kept) /\ persisted = data) )

\* C16 witness: both rounds are in data and each record still ends in its test byte
C16_Witness ==
    /\ pc = "done"
    /\ i = rounds
    /\ Len(data) = rounds * BufLen
    /\ \A k \in 1 .. rounds * MEM_ROUNDS : data[k * STRIDE] = SENTINEL
    /\ data[1] # SENTINEL

\* ------------------------------------------------------------------------
\* C17
\* ------------------------------------------------------------------------

\* C17: one notification releases at most one wait.  Every wait that returns has
\* had a notification of its own: at least one was taken by the callback since the
\* wait before it returned (since the start, for the first).  So the waits that
\* have returned never outnumber the notifications delivered, and however many
\* notifications arrive for one wait, the next wait needs a new one.
C17_EachWaitHasItsNotification ==
    /\ [][ (pc = "wait" /\ pc' = "reset") => nDelivered >= 1 ]_vars
    /\ []( (rnd_done /\ pc # "reset") => nDelivered >= 1 )

\* C17 witness: two notifications, the routine's and a stray one, were taken by
\* the callback for the first wait
C17_Witness ==
    /\ pc = "wait"
    /\ i = 0 /\ outcomes = << >>
    /\ rnd_done
    /\ nDelivered = 2
    /\ dpc = "idle" /\ emitted = 1

\* ------------------------------------------------------------------------
\* C18
\* ------------------------------------------------------------------------

\* the offsets of the result buffer the host reads: MEM_RNG .. MEM_RNG + MEM_ROUNDS*5 - 1
ResultBuffer == 0 .. MEM_ROUNDS * STRIDE - 1

\* C18: every byte an execution of dump_rng stores, for the RNG words and for the
\* test bytes alike, lies inside the result buffer, the MEM_ROUNDS*5 bytes from
\* MEM_RNG on that the host reads.
C18_StoresStayInBuffer == stored \subseteq ResultBuffer

====
